---- MODULE Spec2Model ----
(***************************************************************************)
(* Call control of uSIP.                                                   *)
(*                                                                         *)
(* SimpleSIPClient (src/simple_sip_client.py) sends REGISTER, INVITE, ACK, *)
(* re-INVITE and BYE over one UDP socket and decides what to do next by    *)
(* searching the text of each received datagram for literal markers such   *)
(* as "200 OK".  SIPClient (src/src/sip_client/client.py) wraps it and     *)
(* keeps a registration state.  The `call` command of simple_sip_client.py *)
(* runs register, make_call, then a keepalive thread beside the main       *)
(* thread, which hangs up and closes the socket.                           *)
(*                                                                         *)
(* prog = "cli" is the `call` command (main thread + keepalive thread);    *)
(* prog = "api" is a caller of SIPClient invoking its operations in any    *)
(* order, one after the other.  prog = "session" is such a caller that     *)
(* dials two numbers and also drives the audio manager, with a server that *)
(* answers without challenge.                                              *)
(***************************************************************************)
EXTENDS Integers, Sequences, FiniteSets, TLC

VARIABLES
    prog,               \* which program drives the client, or which part runs
    pc,                 \* main thread: position inside the running operation
    op,                 \* main thread: operation running / last run
    ret,                \* return value of the operation at pc = "ret"
    last_op,            \* last operation that returned to the driver
    nops,               \* operations started by the api caller
    method,             \* `method` argument of handle_authentication
    rcvd,               \* datagrams received by the running operation
    mark,               \* Len(sent) when the running operation began
    sock,               \* self.socket: "none" | "open" | "closed"
    registered,         \* self.registered
    call_id,            \* self.call_id (0 is None)
    local_tag,          \* self.local_tag (0 is None)
    remote_tag,         \* self.remote_tag ("None" is None)
    contact_uri,        \* self.contact_uri
    cseq,               \* self.cseq
    branch,             \* self.branch: how many branches were stored (0 is None)
    registration_state, \* SIPClient.registration_state
    sent,               \* every datagram handed to socket.sendto, in order
    idGen,              \* identifiers generated so far
    kpc,                \* keepalive thread: position
    k_tmp,              \* keepalive thread: value loaded by `self.cseq += 1`
    k_msg,              \* keepalive thread: message built, not yet sent
    h_tmp,              \* hangup: value loaded by `self.cseq += 1`
    h_msg,              \* hangup: message built, not yet sent
    nrefresh,           \* wake-ups of the keepalive thread
    calls,              \* SIPClient.calls: the numbers n with a key "call_<n>"
    arg,                \* argument of the running operation
    tracked,            \* hangup: its argument was a key of calls on entry
    cred,               \* realm and nonce of the Authorization header sent by
                        \* the running operation
    authorization,      \* the fields of that Authorization header
    is_streaming,       \* AudioManager.is_streaming
    a_pc,               \* account: "off" | "args" | "made" | "error"
    a_args,             \* account: arguments of SIPAccount(...)
    account,            \* account: the SIPAccount that was constructed
    c_pc,               \* codec: "off" | "request" | "text" | "parsed" | "looked"
    c_req,              \* codec: arguments of create_sip_message
    raw,                \* codec: text of a message, a sequence of characters
    msg,                \* codec: the SIPMessage built from raw
    c_name,             \* codec: argument of get_header
    c_value,            \* codec: what get_header returned
    running,            \* SIPProtocol.running
    proto_socket,       \* SIPProtocol.socket: "none" | "open"
    receive_thread,     \* _receive_loop: "off" | "check" (at its while test) |
                        \* "call" (about to call recvfrom) | "recv" (inside
                        \* recvfrom) | "ended"
    arrivals,           \* datagrams that reached the socket
    delivered,          \* texts handed to on_response_received or
                        \* on_request_received
    invoked,            \* per datagram of arrivals: whether the loop read it
                        \* and which callbacks it called for it
    send_ret            \* what the last send_message returned

vars == <<prog, pc, op, ret, last_op, nops, method, rcvd, mark, sock,
          registered, call_id, local_tag, remote_tag, contact_uri, cseq, branch,
          registration_state, sent, idGen, kpc, k_tmp, k_msg, h_tmp, h_msg,
          nrefresh, calls, arg, tracked, cred, authorization, is_streaming,
          a_pc, a_args, account,
          c_pc, c_req, raw, msg, c_name, c_value,
          running, proto_socket, receive_thread, arrivals, delivered, invoked,
          send_ret>>

learned == <<remote_tag, contact_uri>>
codecVars == <<c_pc, c_req, raw, msg, c_name, c_value>>
\* what no operation of SimpleSIPClient or SIPClient touches
protoVars == <<running, proto_socket, receive_thread, arrivals, delivered, invoked,
               send_ret>>
accountVars == <<a_pc, a_args, account>>
others == <<prog, codecVars, protoVars, accountVars>>
\* and the audio manager, which only SIPClient.stop touches
fixed == <<others, is_streaming>>
keepVars == <<kpc, k_tmp, k_msg, nrefresh>>
hangVars == <<h_tmp, h_msg>>
authVars == <<cred, authorization>>

\* Bounds of the exploration.
MaxOps == 3
MaxRefresh == 2
MaxLine == 5
MaxHeaders == 2
MaxDatagrams == 3
MaxSessionOps == 4

NoTag == "None"
NoArg == "None"
NoContact == [user |-> "", host |-> ""]
\* sip:<domain>
DomainUri == [user |-> "", host |-> "domain"]
\* sip:<number>@<domain>
NumberUri(n) == [user |-> n, host |-> "domain"]
\* the number that is dialled
Numbers == {"100"}
\* the numbers the "session" caller dials
SessionNumbers == {"100", "200"}
Dialled == IF prog = "session" THEN SessionNumbers ELSE Numbers
\* a caller of SIPClient
ApiCaller == prog \in {"api", "session"}
NoMsg == [method |-> "none"]

(***************************************************************************)
(* Received datagrams.  A response is its status line (code, phrase), the  *)
(* challenge header it carries ("valid": a WWW-Authenticate or             *)
(* Proxy-Authenticate line with realm and nonce; "comma": such a line      *)
(* whose quoted realm contains a comma; "norealm", "nononce": such a line  *)
(* without the one or the other), the tag of its To header                 *)
(* and `text`: a status-like marker that occurs somewhere else in its      *)
(* headers or body (<<>> when none does).  A response that has a To tag    *)
(* also has a Contact header, <sip:100@peer>.                              *)
(***************************************************************************)
PeerContact == [user |-> "100", host |-> "peer"]
Resp(c, p, ch, tx, tg) ==
    [code |-> c, phrase |-> p, chal |-> ch, text |-> tx, tag |-> tg,
     contact |-> IF tg = NoTag THEN NoContact ELSE PeerContact]

\* Responses whose reason phrase is the one RFC 3261 lists for the code.
StdResponses ==
    { Resp(100, "Trying", "none", <<>>, NoTag),
      Resp(180, "Ringing", "none", <<>>, NoTag),
      Resp(183, "Session Progress", "none", <<>>, NoTag),
      Resp(200, "OK", "none", <<>>, "t1"),
      Resp(200, "OK", "none", <<>>, NoTag),
      Resp(202, "Accepted", "none", <<>>, "t1"),
      Resp(401, "Unauthorized", "valid", <<>>, NoTag),
      Resp(401, "Unauthorized", "none", <<>>, NoTag),
      Resp(407, "Proxy Authentication Required", "valid", <<>>, NoTag),
      Resp(486, "Busy Here", "none", <<>>, NoTag) }

\* Responses with another reason phrase (a server may choose any).
OtherPhraseResponses ==
    { Resp(100, "Giving a try", "none", <<>>, NoTag),
      Resp(200, "Ok", "none", <<>>, "t1"),
      Resp(401, "Authentication Required", "valid", <<>>, NoTag) }

\* Responses that quote "200 OK" in a header or in the body.
QuotingResponses ==
    { Resp(486, "Busy Here", "none", <<200, "OK">>, "t1"),
      Resp(401, "Unauthorized", "valid", <<200, "OK">>, NoTag) }

\* A challenge whose realm is the quoted string "a,b".
CommaResponses ==
    { Resp(401, "Unauthorized", "comma", <<>>, NoTag) }

\* Challenges that lack the realm or the nonce.
PartialResponses ==
    { Resp(401, "Unauthorized", "norealm", <<>>, NoTag),
      Resp(407, "Proxy Authentication Required", "nononce", <<>>, NoTag) }

Responses ==
    StdResponses \cup OtherPhraseResponses \cup QuotingResponses \cup CommaResponses
        \cup PartialResponses

\* socket.timeout raised by recvfrom
Timeout == Resp(0, "", "none", <<>>, NoTag)

Inputs == Responses \cup {Timeout}

\* what the registrar is taken to answer to the first REGISTER
RegisterInputs == Inputs \ CommaResponses

\* what the server of the "session" caller answers: 200 OK with one of two To
\* tags or with none, 486, or nothing
SessionInputs ==
    { Resp(200, "OK", "none", <<>>, "t1"),
      Resp(200, "OK", "none", <<>>, "t2"),
      Resp(200, "OK", "none", <<>>, NoTag),
      Resp(486, "Busy Here", "none", <<>>, NoTag),
      Timeout }

\* what recvfrom may return when it may return any of S
Answers(S) == IF prog = "session" THEN SessionInputs ELSE S

\* `"<code> <phrase>" in response_str`
Contains(r, c, p) == (r.code = c /\ r.phrase = p) \/ r.text = <<c, p>>

IsChallenge(r) ==
    Contains(r, 401, "Unauthorized") \/ Contains(r, 407, "Proxy Authentication Required")
Is200OK(r) == Contains(r, 200, "OK")
Is100(r) == Contains(r, 100, "Trying")
Is180(r) == Contains(r, 180, "Ringing")
Is183(r) == Contains(r, 183, "Session Progress")

\* The realm and the nonce a challenge states, as sequences of characters.
ChallengeRealm(r) ==
    IF r.chal = "comma" THEN <<"a", ",", "b">>
    ELSE IF r.chal = "norealm" THEN <<>> ELSE <<"r">>
ChallengeNonce(r) == IF r.chal = "nononce" THEN <<>> ELSE <<"n">>

\* the text before the first "," of q: the first item of q.split(',')
RECURSIVE FirstPart(_)
FirstPart(q) ==
    IF q = <<>> \/ Head(q) = "," THEN <<>> ELSE <<Head(q)>> \o FirstPart(Tail(q))

\* handle_authentication: the header line is split at every comma and realm
\* and nonce are taken from the part that holds `realm=` and `nonce=`
ParseRealm(r) == FirstPart(ChallengeRealm(r))
ParseNonce(r) == FirstPart(ChallengeNonce(r))

\* handle_authentication going on when only the realm was found
ChallengeParsed_RealmOnly(r) ==
    r.chal # "none" /\ ParseRealm(r) # <<>>
\* handle_authentication finds a challenge header line with realm and nonce
ChallengeParsed(r) ==
    r.chal # "none" /\ ParseRealm(r) # <<>> /\ ParseNonce(r) # <<>>

NoCred == <<>>
\* the realm and nonce of the Authorization header
Credentials(r) == <<ParseRealm(r), ParseNonce(r)>>

\* self.config['username'] and self.config['password']
Username == <<"u">>
Password == <<"p">>

\* the text of a URI: sip:<host> or sip:<user>@<host>
UriText(u) ==
    IF u.user = "" THEN <<"sip", ":", u.host>> ELSE <<"sip", ":", u.user, "@", u.host>>

\* hashlib.md5(text.encode()).hexdigest(): the digest is one symbol that
\* stands for the text it was computed from
MD5(text) == [md5 |-> text]

\* handle_authentication: ha1, ha2 and response_hash
DigestResponse(username, realm, password, nonce, m, uri) ==
    LET ha1 == MD5(username \o <<":">> \o realm \o <<":">> \o password)
        ha2 == MD5(<<m, ":">> \o uri)
    IN  MD5(<<ha1, ":">> \o nonce \o <<":", ha2>>)

NoAuthorization ==
    [username |-> <<>>, realm |-> <<>>, nonce |-> <<>>, uri |-> <<>>, response |-> <<>>]
\* the Authorization header handle_authentication builds for the request
\* `m uri` from the challenge of response r
AuthorizationHeader(r, m, u) ==
    [username |-> Username, realm |-> ParseRealm(r), nonce |-> ParseNonce(r),
     uri |-> UriText(u),
     response |-> DigestResponse(Username, ParseRealm(r), Password, ParseNonce(r),
                                 m, UriText(u))]

\* extract_sip_headers: the To tag replaces remote_tag when the line has one
ExtractTag(r, old) == IF r.tag # NoTag THEN r.tag ELSE old
\* extract_sip_headers: the Contact URI replaces contact_uri when there is one
ExtractContact(r, old) == IF r.contact # NoContact THEN r.contact ELSE old
\* send_ack, send_session_refresh: the learned Contact, else sip:<domain>
TargetUri(c) == IF c # NoContact THEN c ELSE DomainUri

\* self.branch = self.generate_branch(): a branch that was not stored before
GenerateBranch(b) == b + 1

\* CSeq arithmetic of each request
RegisterCSeq(c) == c
InviteCSeq == 1
AuthCSeq(c) == c + 1
\* send_ack taking a fresh CSeq, as every other request does
AckCSeq_Fresh(c) == c + 1
AckCSeq(c) == c
\* send_session_refresh reusing the current CSeq
RefreshCSeq_Stale(c) == c
RefreshCSeq(c) == c + 1
HangupCSeq(c) == c + 1

Req(m, u, cid, ftag, ttag, cs, auth) ==
    [method |-> m, uri |-> u, call_id |-> cid, from_tag |-> ftag, to_tag |-> ttag,
     cseq |-> cs, auth |-> auth]

NoAccount == [username |-> <<>>, password |-> <<>>, domain |-> <<>>, port |-> 0]
NoReq == [method |-> <<>>, uri |-> <<>>, headers |-> <<>>, body |-> <<>>]
NoMessage ==
    [method |-> <<>>, uri |-> <<>>, version |-> <<>>, status_code |-> 0,
     reason_phrase |-> <<>>, headers |-> <<>>, keys |-> <<>>, body |-> <<>>]
\* get_header returned None
NoValue == [found |-> FALSE, value |-> <<>>]

\* no message is being encoded or parsed
CodecOff ==
    /\ c_pc = "off" /\ c_req = NoReq /\ raw = <<>> /\ msg = NoMessage
    /\ c_name = <<>> /\ c_value = NoValue

\* SIPProtocol.__init__
ProtoOff ==
    /\ running = FALSE /\ proto_socket = "none" /\ receive_thread = "off"
    /\ arrivals = <<>> /\ delivered = <<>> /\ invoked = <<>> /\ send_ret = "none"

\* SimpleSIPClient.__init__ and SIPClient.__init__
ClientInit ==
    /\ pc = "idle" /\ op = "none" /\ ret = FALSE /\ last_op = "none"
    /\ nops = 0 /\ method = "none" /\ rcvd = <<>> /\ mark = 0
    /\ sock = "none" /\ registered = FALSE
    /\ call_id = 0 /\ local_tag = 0 /\ remote_tag = NoTag /\ contact_uri = NoContact
    /\ cseq = 1 /\ branch = 0
    /\ registration_state = "UNREGISTERED"
    /\ sent = <<>> /\ idGen = 0
    /\ kpc = "off" /\ k_tmp = 0 /\ k_msg = NoMsg
    /\ h_tmp = 0 /\ h_msg = NoMsg /\ nrefresh = 0
    /\ calls = {} /\ arg = NoArg /\ tracked = FALSE /\ cred = NoCred
    /\ authorization = NoAuthorization
    /\ is_streaming = FALSE

\* no account is being constructed
AccountOff == a_pc = "off" /\ a_args = NoAccount /\ account = NoAccount

Init ==
    /\ prog \in {"cli", "api"}
    /\ ClientInit
    /\ CodecOff
    /\ ProtoOff
    /\ AccountOff

(***************************************************************************)
(* The driver: which operation may begin.                                  *)
(***************************************************************************)
CanStart(o) ==
    /\ pc = "idle"
    /\ IF prog = "api" THEN nops < MaxOps
       ELSE IF prog = "session" THEN nops < MaxSessionOps
       ELSE CASE o = "register" -> last_op = "none"
              [] o = "make_call" -> last_op = "register" /\ ret
              [] o = "hangup" -> last_op = "make_call" /\ ret /\ kpc # "off"
              [] o = "cleanup" ->
                    \/ last_op \in {"register", "make_call"} /\ ~ret
                    \/ last_op = "hangup"

Begin(o, a) ==
    /\ op' = o
    /\ arg' = a
    /\ tracked' = (o = "hangup" /\ a \in calls)
    /\ nops' = IF ApiCaller THEN nops + 1 ELSE nops
    /\ rcvd' = <<>>
    /\ mark' = Len(sent)

\* CallState, in the order of its values
CallState ==
    <<"IDLE", "CALLING", "RINGING", "CONNECTING", "CONNECTED", "DISCONNECTING",
      "DISCONNECTED", "FAILED">>

\* the 'state' field of the entries of SIPClient.calls: make_call writes
\* CallState.CONNECTED when it stores an entry and nothing writes it again
CallStates == [n \in calls |-> "CONNECTED"]

\* `del self.calls[call_id]`, dropping the call for good
Untrack_Keep(c, a) == c
Untrack(c, a) == c \ {a}

\* The operation returns `result`; SIPClient.register records the outcome,
\* SIPClient.make_call tracks the call, SIPClient.hangup drops it.
Finish(result) ==
    /\ pc' = "ret"
    /\ ret' = result
    /\ calls' =
         IF ~ApiCaller THEN calls
         ELSE IF op' = "make_call" /\ result THEN calls \cup {arg'}
         ELSE IF op' = "hangup" /\ arg' \in calls THEN Untrack(calls, arg')
         ELSE calls
    /\ registration_state' =
         IF op' = "register" /\ ApiCaller
         THEN (IF result THEN "REGISTERED" ELSE "FAILED")
         ELSE registration_state

Return ==
    /\ pc = "ret"
    /\ pc' = "idle"
    /\ last_op' = op
    /\ rcvd' = <<>>
    /\ arg' = NoArg /\ tracked' = FALSE /\ cred' = NoCred
    /\ authorization' = NoAuthorization
    /\ UNCHANGED <<fixed, op, ret, nops, method, mark, sock, registered, call_id,
                   local_tag, learned, cseq, branch, registration_state, sent, idGen,
                   keepVars, hangVars, calls>>


(***************************************************************************)
(* Fragments shared by the handlers of the main thread.                    *)
(***************************************************************************)
recvFrame == <<fixed, op, last_op, nops, method, mark, sock, call_id, local_tag,
               idGen, keepVars, hangVars, arg, tracked>>

Fail ==
    /\ Finish(FALSE)
    /\ UNCHANGED <<registered, learned, cseq, branch, sent, authVars>>

\* recvfrom raised socket.timeout: the handler reports it and returns False
OnTimeout_Resend ==
    /\ Finish(FALSE)
    /\ sent' = Append(sent, sent[Len(sent)])
    /\ UNCHANGED <<registered, learned, cseq, branch, authVars>>
OnTimeout == Fail

\* send_ack: builds the ACK from the dialog state and sends it; an error of
\* sendto is caught inside send_ack.
SendAck(ttag, contact) ==
    sent' = IF sock = "open"
            THEN Append(sent, Req("ACK", TargetUri(contact), call_id, local_tag, ttag,
                                  AckCSeq(cseq), FALSE))
            ELSE sent

\* the `uri` send_register and make_call pass to handle_authentication
RequestUri == IF method = "REGISTER" THEN DomainUri ELSE NumberUri(arg)

\* handle_authentication up to its first recvfrom: parse the challenge, bump
\* CSeq, send the request again with an Authorization header.
HandleAuthentication(r) ==
    IF ~ChallengeParsed(r)
    THEN Fail
    ELSE /\ cseq' = AuthCSeq(cseq)
         /\ branch' = GenerateBranch(branch)
         /\ UNCHANGED <<registered, learned>>
         /\ IF sock = "open"
            THEN /\ sent' = Append(sent, Req(method, RequestUri, call_id, local_tag, NoTag,
                                             AuthCSeq(cseq), TRUE))
                 /\ cred' = Credentials(r)
                 /\ authorization' = AuthorizationHeader(r, method, RequestUri)
                 /\ pc' = "auth_wait"
                 /\ UNCHANGED <<ret, registration_state, calls>>
            ELSE /\ Finish(FALSE)
                 /\ UNCHANGED <<sent, authVars>>

\* make_call: the chain of tests applied to the last response it read
InviteFinal(r) ==
    IF IsChallenge(r)
    THEN HandleAuthentication(r)
    ELSE IF Is200OK(r)
    THEN /\ remote_tag' = ExtractTag(r, remote_tag)
         /\ contact_uri' = ExtractContact(r, contact_uri)
         /\ SendAck(ExtractTag(r, remote_tag), ExtractContact(r, contact_uri))
         /\ Finish(TRUE)
         /\ UNCHANGED <<registered, cseq, branch, authVars>>
    ELSE Fail

\* handle_authentication: the tests applied after "100 Trying" was seen
AuthFinal(r) ==
    IF Is200OK(r)
    THEN /\ remote_tag' = ExtractTag(r, remote_tag)
         /\ contact_uri' = ExtractContact(r, contact_uri)
         /\ SendAck(ExtractTag(r, remote_tag), ExtractContact(r, contact_uri))
         /\ Finish(TRUE)
         /\ UNCHANGED <<registered, cseq, branch, authVars>>
    ELSE Fail

Goto(l) ==
    /\ pc' = l
    /\ UNCHANGED <<ret, registration_state, calls, registered, learned, cseq, branch,
                   sent, authVars>>

(***************************************************************************)
(* send_register                                                           *)
(***************************************************************************)
SendRegister ==
    /\ CanStart("register")
    /\ Begin("register", NoArg)
    /\ method' = "REGISTER"
    /\ sock' = "open"
    /\ idGen' = idGen + 1
    /\ call_id' = idGen + 1
    /\ local_tag' = idGen + 1
    /\ branch' = GenerateBranch(branch)
    /\ sent' = Append(sent, Req("REGISTER", DomainUri, idGen + 1, idGen + 1, NoTag,
                                RegisterCSeq(cseq), FALSE))
    /\ pc' = "reg_wait"
    /\ UNCHANGED <<fixed, ret, last_op, registered, learned, cseq,
                   registration_state, calls, authVars, keepVars, hangVars>>

RegisterRecv ==
    /\ pc = "reg_wait"
    /\ UNCHANGED recvFrame
    /\ \E r \in Answers(RegisterInputs) :
        /\ rcvd' = Append(rcvd, r)
        /\ IF r = Timeout THEN OnTimeout
           ELSE IF IsChallenge(r) THEN HandleAuthentication(r)
           ELSE IF Is200OK(r)
           THEN /\ registered' = TRUE
                /\ Finish(TRUE)
                /\ UNCHANGED <<learned, cseq, branch, sent, authVars>>
           ELSE Fail

(***************************************************************************)
(* handle_authentication, after the authenticated request was sent         *)
(***************************************************************************)
AuthRecv ==
    /\ pc = "auth_wait"
    /\ UNCHANGED recvFrame
    /\ \E r \in Answers(Inputs) :
        /\ rcvd' = Append(rcvd, r)
        /\ IF r = Timeout THEN OnTimeout
           ELSE IF Is200OK(r)
           THEN /\ IF method = "REGISTER"
                   THEN registered' = TRUE /\ UNCHANGED sent
                   ELSE SendAck(remote_tag, contact_uri) /\ UNCHANGED registered
                /\ Finish(TRUE)
                /\ UNCHANGED <<learned, cseq, branch, authVars>>
           ELSE IF Is100(r) /\ method = "INVITE" THEN Goto("auth_wait_100")
           ELSE Fail

AuthRecv100 ==
    /\ pc = "auth_wait_100"
    /\ UNCHANGED recvFrame
    /\ \E r \in Answers(Inputs) :
        /\ rcvd' = Append(rcvd, r)
        /\ IF r = Timeout THEN OnTimeout
           ELSE IF Is183(r) THEN Goto("auth_wait_183")
           ELSE IF Is180(r) THEN Goto("auth_wait_180")
           ELSE AuthFinal(r)

AuthRecv183 ==
    /\ pc = "auth_wait_183"
    /\ UNCHANGED recvFrame
    /\ \E r \in Answers(Inputs) :
        /\ rcvd' = Append(rcvd, r)
        /\ IF r = Timeout THEN OnTimeout
           ELSE IF Is180(r) THEN Goto("auth_wait_180")
           ELSE AuthFinal(r)

AuthRecv180 ==
    /\ pc = "auth_wait_180"
    /\ UNCHANGED recvFrame
    /\ \E r \in Answers(Inputs) :
        /\ rcvd' = Append(rcvd, r)
        /\ IF r = Timeout THEN OnTimeout ELSE AuthFinal(r)

(***************************************************************************)
(* make_call                                                               *)
(***************************************************************************)
\* make_call refusing only a client that never opened its socket
NotRegistered_NoSocket == sock = "none"
\* `if not self.registered`
NotRegistered == ~registered

MakeCall ==
    /\ CanStart("make_call")
    /\ \E number \in Dialled : Begin("make_call", number)
    /\ IF NotRegistered
       THEN /\ Finish(FALSE)
            /\ UNCHANGED <<method, call_id, local_tag, cseq, branch, sent, idGen>>
       ELSE /\ method' = "INVITE"
            /\ idGen' = idGen + 1
            /\ call_id' = idGen + 1
            /\ local_tag' = idGen + 1
            /\ branch' = GenerateBranch(branch)
            /\ cseq' = InviteCSeq
            /\ IF sock = "open"
               THEN /\ sent' = Append(sent, Req("INVITE", NumberUri(arg'), idGen + 1, idGen + 1,
                                                NoTag,
                                                InviteCSeq, FALSE))
                    /\ pc' = "inv_wait"
                    /\ UNCHANGED <<ret, registration_state, calls>>
               ELSE /\ Finish(FALSE)
                    /\ UNCHANGED sent
    /\ UNCHANGED <<fixed, last_op, sock, registered, learned, authVars, keepVars,
                   hangVars>>

InviteRecv ==
    /\ pc = "inv_wait"
    /\ UNCHANGED recvFrame
    /\ \E r \in Answers(Inputs) :
        /\ rcvd' = Append(rcvd, r)
        /\ IF r = Timeout THEN OnTimeout
           ELSE IF Is100(r) THEN Goto("inv_wait_100")
           ELSE IF Is180(r) THEN Goto("inv_wait_180")
           ELSE InviteFinal(r)

InviteRecv100 ==
    /\ pc = "inv_wait_100"
    /\ UNCHANGED recvFrame
    /\ \E r \in Answers(Inputs) :
        /\ rcvd' = Append(rcvd, r)
        /\ IF r = Timeout THEN OnTimeout
           ELSE IF Is180(r) THEN Goto("inv_wait_180")
           ELSE InviteFinal(r)

InviteRecv180 ==
    /\ pc = "inv_wait_180"
    /\ UNCHANGED recvFrame
    /\ \E r \in Answers(Inputs) :
        /\ rcvd' = Append(rcvd, r)
        /\ IF r = Timeout THEN OnTimeout ELSE InviteFinal(r)

(***************************************************************************)
(* hangup, one step per access to the shared dialog state                  *)
(***************************************************************************)
hangFrame == <<fixed, op, last_op, nops, method, rcvd, mark, sock, registered,
               call_id, local_tag, learned, branch, idGen, keepVars, arg, tracked,
               authVars>>

HangupBegin ==
    /\ CanStart("hangup")
    /\ \E a \in (IF ApiCaller THEN Dialled \cup {NoArg} ELSE {NoArg}) :
          Begin("hangup", a)
    /\ IF call_id = 0
       THEN Finish(TRUE) /\ UNCHANGED h_tmp
       ELSE /\ h_tmp' = cseq
            /\ pc' = "hup_inc"
            /\ UNCHANGED <<ret, registration_state, calls>>
    /\ UNCHANGED <<fixed, last_op, method, sock, registered, call_id, local_tag,
                   learned, cseq, branch, sent, idGen, keepVars, h_msg, authVars>>

HangupInc ==
    /\ pc = "hup_inc"
    /\ cseq' = HangupCSeq(h_tmp)
    /\ pc' = "hup_fmt"
    /\ UNCHANGED <<hangFrame, ret, registration_state, calls, sent, hangVars>>

HangupFormat ==
    /\ pc = "hup_fmt"
    /\ h_msg' = Req("BYE", DomainUri, call_id, local_tag, remote_tag, cseq, FALSE)
    /\ pc' = "hup_send"
    /\ UNCHANGED <<hangFrame, ret, registration_state, calls, sent, cseq, h_tmp>>

HangupSend ==
    /\ pc = "hup_send"
    /\ UNCHANGED <<hangFrame, cseq, hangVars>>
    /\ \E ok \in BOOLEAN :
          \* sendto raises when the socket is closed and may raise OSError
          sent' = IF sock = "open" /\ ok THEN Append(sent, h_msg) ELSE sent
    /\ Finish(TRUE)

(***************************************************************************)
(* cleanup: SimpleSIPClient.cleanup in the `call` command, SIPClient.stop   *)
(* for a caller of SIPClient                                               *)
(***************************************************************************)
Cleanup ==
    /\ CanStart("cleanup")
    /\ Begin("cleanup", NoArg)
    /\ sock' = IF sock = "none" THEN "none" ELSE "closed"
    /\ is_streaming' = IF ApiCaller THEN FALSE ELSE is_streaming
    /\ Finish(TRUE)
    /\ UNCHANGED <<others, last_op, method, registered, call_id, local_tag,
                   learned, cseq, branch, sent, idGen, keepVars, hangVars, authVars>>

(***************************************************************************)
(* SIPClient.unregister: no request is sent and the signalling client is   *)
(* not told                                                                *)
(***************************************************************************)
Unregister ==
    /\ ApiCaller
    /\ CanStart("unregister")
    /\ Begin("unregister", NoArg)
    /\ registration_state' = "UNREGISTERED"
    /\ pc' = "ret"
    /\ ret' = TRUE
    /\ UNCHANGED <<fixed, last_op, method, sock, registered, call_id, local_tag,
                   learned, cseq, branch, sent, idGen, keepVars, hangVars, calls,
                   authVars>>

(***************************************************************************)
(* The keepalive thread of the `call` command                              *)
(***************************************************************************)
keepFrame == <<fixed, pc, op, ret, last_op, nops, method, rcvd, mark, sock,
               registered, call_id, local_tag, learned, registration_state,
               branch, idGen, hangVars, calls, arg, tracked, authVars>>

DialogUp == call_id # 0 /\ remote_tag # NoTag

StartKeepalive ==
    /\ prog = "cli" /\ pc = "idle" /\ last_op = "make_call" /\ ret
    /\ kpc = "off"
    /\ kpc' = "k_loop"
    /\ UNCHANGED <<keepFrame, cseq, sent, k_tmp, k_msg, nrefresh>>

KeepaliveLoop ==
    /\ kpc = "k_loop"
    /\ kpc' = IF DialogUp THEN "k_sleep" ELSE "k_done"
    /\ UNCHANGED <<keepFrame, cseq, sent, k_tmp, k_msg, nrefresh>>

KeepaliveWake ==
    /\ kpc = "k_sleep"
    /\ nrefresh < MaxRefresh
    /\ nrefresh' = nrefresh + 1
    /\ kpc' = IF DialogUp THEN "k_enter" ELSE "k_loop"
    /\ UNCHANGED <<keepFrame, cseq, sent, k_tmp, k_msg>>

RefreshEnter ==
    /\ kpc = "k_enter"
    /\ IF ~DialogUp
       THEN kpc' = "k_loop" /\ UNCHANGED k_tmp
       ELSE k_tmp' = cseq /\ kpc' = "k_inc"
    /\ UNCHANGED <<keepFrame, cseq, sent, k_msg, nrefresh>>

RefreshInc ==
    /\ kpc = "k_inc"
    /\ cseq' = RefreshCSeq(k_tmp)
    /\ kpc' = "k_fmt"
    /\ UNCHANGED <<keepFrame, sent, k_tmp, k_msg, nrefresh>>

RefreshFormat ==
    /\ kpc = "k_fmt"
    /\ k_msg' = Req("INVITE", TargetUri(contact_uri), call_id, local_tag, remote_tag,
                    cseq, FALSE)
    /\ kpc' = "k_send"
    /\ UNCHANGED <<keepFrame, cseq, sent, k_tmp, nrefresh>>

RefreshSend ==
    /\ kpc = "k_send"
    /\ sent' = IF sock = "open" THEN Append(sent, k_msg) ELSE sent
    /\ kpc' = "k_loop"
    /\ UNCHANGED <<keepFrame, cseq, k_tmp, k_msg, nrefresh>>

MainNext ==
    \/ SendRegister \/ RegisterRecv
    \/ AuthRecv \/ AuthRecv100 \/ AuthRecv183 \/ AuthRecv180
    \/ MakeCall \/ InviteRecv \/ InviteRecv100 \/ InviteRecv180
    \/ HangupBegin \/ HangupInc \/ HangupFormat \/ HangupSend
    \/ Cleanup \/ Unregister \/ Return \/ StartKeepalive

KeepNext ==
    \/ KeepaliveLoop \/ KeepaliveWake
    \/ RefreshEnter \/ RefreshInc \/ RefreshFormat \/ RefreshSend

Next == MainNext \/ KeepNext

Spec == Init /\ [][Next]_vars

\* Operations executed one at a time: no step of one thread while the other
\* thread is inside an operation.
RefreshBusy == kpc \in {"k_enter", "k_inc", "k_fmt", "k_send"}

NextSeq ==
    \/ ~RefreshBusy /\ SendRegister
    \/ ~RefreshBusy /\ RegisterRecv
    \/ ~RefreshBusy /\ AuthRecv
    \/ ~RefreshBusy /\ AuthRecv100
    \/ ~RefreshBusy /\ AuthRecv183
    \/ ~RefreshBusy /\ AuthRecv180
    \/ ~RefreshBusy /\ MakeCall
    \/ ~RefreshBusy /\ InviteRecv
    \/ ~RefreshBusy /\ InviteRecv100
    \/ ~RefreshBusy /\ InviteRecv180
    \/ ~RefreshBusy /\ HangupBegin
    \/ ~RefreshBusy /\ HangupInc
    \/ ~RefreshBusy /\ HangupFormat
    \/ ~RefreshBusy /\ HangupSend
    \/ ~RefreshBusy /\ Cleanup
    \/ ~RefreshBusy /\ Unregister
    \/ ~RefreshBusy /\ Return
    \/ ~RefreshBusy /\ StartKeepalive
    \/ pc = "idle" /\ KeepaliveLoop
    \/ pc = "idle" /\ KeepaliveWake
    \/ pc = "idle" /\ RefreshEnter
    \/ pc = "idle" /\ RefreshInc
    \/ pc = "idle" /\ RefreshFormat
    \/ pc = "idle" /\ RefreshSend

SpecSeq == Init /\ [][NextSeq]_vars

\* Progress: a blocking recvfrom returns (a datagram or socket.timeout), a
\* running operation runs to its return, a started thread is scheduled and its
\* sleep ends.  Nothing forces the driver to begin an operation: input() of the
\* `call` command may block for ever.
Running ==
    \/ RegisterRecv
    \/ AuthRecv \/ AuthRecv100 \/ AuthRecv183 \/ AuthRecv180
    \/ InviteRecv \/ InviteRecv100 \/ InviteRecv180
    \/ HangupInc \/ HangupFormat \/ HangupSend
    \/ Return \/ StartKeepalive

SpecLive == Init /\ [][Next]_vars /\ WF_vars(Running) /\ WF_vars(KeepNext)

(***************************************************************************)
(* The "session" caller: SIPClient's operations and, between them, the     *)
(* audio manager's.  Its server never challenges and sends no provisional  *)
(* response, so the steps of handle_authentication and the waits after a   *)
(* 1xx do not occur.                                                       *)
(***************************************************************************)
audioFrame == <<others, pc, op, ret, last_op, nops, method, rcvd, mark, sock,
                registered, call_id, local_tag, learned, cseq, registration_state,
                branch, sent, idGen, keepVars, hangVars, calls, arg, tracked, authVars>>

\* AudioManager.start_streaming
StartStreaming ==
    /\ prog = "session" /\ pc = "idle"
    /\ is_streaming' = TRUE
    /\ UNCHANGED audioFrame

\* AudioManager.stop_streaming
StopStreaming ==
    /\ prog = "session" /\ pc = "idle"
    /\ is_streaming' = FALSE
    /\ UNCHANGED audioFrame

InitSession ==
    /\ prog = "session"
    /\ ClientInit
    /\ CodecOff
    /\ ProtoOff
    /\ AccountOff

NextSession ==
    \/ SendRegister \/ RegisterRecv
    \/ MakeCall \/ InviteRecv
    \/ HangupBegin \/ HangupInc \/ HangupFormat \/ HangupSend
    \/ Cleanup \/ Unregister \/ Return
    \/ StartStreaming \/ StopStreaming

SpecSession == InitSession /\ [][NextSession]_vars

(***************************************************************************)
(* Text.  A text is a sequence of characters; a word that is only ever     *)
(* handled as a whole ("SIP/2.0", "INVITE", a header name) is one element. *)
(***************************************************************************)
Whitespace == {" ", "\t", "\r", "\n"}
Digits == <<"0", "1", "2", "3", "4", "5", "6", "7", "8", "9">>
CRLF == <<"\r", "\n">>

Range(q) == {q[i] : i \in DOMAIN q}

\* str.strip()
RECURSIVE LStrip(_)
LStrip(q) == IF q # <<>> /\ Head(q) \in Whitespace THEN LStrip(Tail(q)) ELSE q
RECURSIVE RStrip(_)
RStrip(q) ==
    IF q # <<>> /\ q[Len(q)] \in Whitespace THEN RStrip(SubSeq(q, 1, Len(q) - 1)) ELSE q
Strip(q) == RStrip(LStrip(q))

\* str.find(c) + 1
IndexOf(q, c) ==
    IF c \in Range(q)
    THEN CHOOSE i \in DOMAIN q : q[i] = c /\ \A j \in 1..(i - 1) : q[j] # c
    ELSE 0

\* str.split(c, n): at most n cuts
RECURSIVE SplitMax(_, _, _)
SplitMax(q, c, n) ==
    IF n = 0 \/ IndexOf(q, c) = 0
    THEN <<q>>
    ELSE <<SubSeq(q, 1, IndexOf(q, c) - 1)>>
            \o SplitMax(SubSeq(q, IndexOf(q, c) + 1, Len(q)), c, n - 1)

\* str.split(c)
Split(q, c) == SplitMax(q, c, Len(q))

\* c.join(parts)
RECURSIVE Join(_, _)
Join(parts, c) ==
    IF parts = <<>> THEN <<>>
    ELSE IF Len(parts) = 1 THEN parts[1]
    ELSE parts[1] \o <<c>> \o Join(Tail(parts), c)

\* int(q) succeeds
IsInt(q) == q # <<>> /\ \A i \in DOMAIN q : q[i] \in Range(Digits)
DigitVal(c) == CHOOSE d \in 0..9 : Digits[d + 1] = c
\* int(q)
RECURSIVE IntOf(_)
IntOf(q) ==
    IF q = <<>> THEN 0
    ELSE 10 * IntOf(SubSeq(q, 1, Len(q) - 1)) + DigitVal(q[Len(q)])
\* str(n)
RECURSIVE Str(_)
Str(n) == IF n < 10 THEN <<Digits[n + 1]>> ELSE Str(n \div 10) \o <<Digits[(n % 10) + 1]>>

\* number of bytes of text.encode(): the character U+00E9 takes two bytes in UTF-8
RECURSIVE ByteLen(_)
ByteLen(q) ==
    IF q = <<>> THEN 0 ELSE (IF Head(q) = "U+00E9" THEN 2 ELSE 1) + ByteLen(Tail(q))

(***************************************************************************)
(* SIPMessage._parse                                                       *)
(***************************************************************************)
\* the request line or status line
ParseFirstLine(first_line) ==
    IF first_line # <<>> /\ Head(first_line) = "SIP/2.0"
    THEN LET parts == SplitMax(first_line, " ", 2) IN
         [method |-> <<>>, uri |-> <<>>,
          version |-> IF Len(parts) >= 2 THEN parts[1] ELSE <<>>,
          status_code |-> IF Len(parts) >= 2 /\ IsInt(parts[2]) THEN IntOf(parts[2]) ELSE 0,
          reason_phrase |-> IF Len(parts) >= 3 THEN parts[3] ELSE <<>>]
    ELSE LET parts == Split(first_line, " ") IN
         [method |-> IF Len(parts) >= 3 THEN parts[1] ELSE <<>>,
          uri |-> IF Len(parts) >= 3 THEN parts[2] ELSE <<>>,
          version |-> IF Len(parts) >= 3 THEN parts[3] ELSE <<>>,
          status_code |-> 0,
          reason_phrase |-> <<>>]

\* self.headers[key.strip()] = value.strip()
PutHeader(headers, line) ==
    LET kv == SplitMax(line, ":", 1)
        key == Strip(kv[1])
    IN  [k \in DOMAIN headers \cup {key} |-> IF k = key THEN Strip(kv[2]) ELSE headers[k]]

\* the loop over lines[1:]: the headers found and the index of the first
\* line of the body
RECURSIVE ParseHeaders(_, _, _)
ParseHeaders(lines, k, headers) ==
    IF k > Len(lines) THEN [headers |-> headers, header_end |-> 2]
    ELSE IF Strip(lines[k]) = <<>> THEN [headers |-> headers, header_end |-> k + 1]
    ELSE ParseHeaders(lines, k + 1,
                      IF ":" \in Range(Strip(lines[k]))
                      THEN PutHeader(headers, Strip(lines[k]))
                      ELSE headers)

\* the keys of self.headers in the order the dictionary keeps them: a key
\* stays where it was first inserted
RECURSIVE ParseKeys(_, _, _)
ParseKeys(lines, k, keys) ==
    IF k > Len(lines) \/ Strip(lines[k]) = <<>> THEN keys
    ELSE LET key == Strip(SplitMax(Strip(lines[k]), ":", 1)[1]) IN
         ParseKeys(lines, k + 1,
                   IF ":" \in Range(Strip(lines[k])) /\ key \notin Range(keys)
                   THEN Append(keys, key)
                   ELSE keys)

ParseMessage(text) ==
    LET lines == Split(text, "\n")
        first == ParseFirstLine(Strip(lines[1]))
        rest == ParseHeaders(lines, 2, <<>>)
    IN  [method |-> first.method, uri |-> first.uri, version |-> first.version,
         status_code |-> first.status_code, reason_phrase |-> first.reason_phrase,
         headers |-> rest.headers,
         keys |-> ParseKeys(lines, 2, <<>>),
         body |-> IF rest.header_end <= Len(lines)
                  THEN Join(SubSeq(lines, rest.header_end, Len(lines)), "\n")
                  ELSE <<>>]

\* str.lower() of a header name
LowerName(w) ==
    CASE w = "Via" -> "via"
      [] w = "VIA" -> "via"
      [] w = "To" -> "to"
      [] OTHER -> w
Lower(q) == [i \in DOMAIN q |-> LowerName(q[i])]

\* get_header: the value of the first key of the dictionary that equals
\* `name` when both are lowered, None when there is none
get_header(m, name) ==
    LET hits == SelectSeq(m.keys, LAMBDA key : Lower(key) = Lower(name)) IN
    IF hits = <<>> THEN NoValue ELSE [found |-> TRUE, value |-> m.headers[hits[1]]]

is_request(m) == m.method # <<>>
is_response(m) == m.status_code > 0

(***************************************************************************)
(* SimpleSIPClient.create_sip_message                                      *)
(***************************************************************************)
\* one line per item of the headers dictionary, in its order
RECURSIVE HeaderLines(_)
HeaderLines(headers) ==
    IF headers = <<>> THEN <<>>
    ELSE headers[1][1] \o <<":", " ">> \o headers[1][2] \o CRLF
            \o HeaderLines(Tail(headers))

\* the value written after "Content-Length: "
ContentLength(body) == Len(body)

create_sip_message(m, uri, headers, body) ==
    m \o <<" ">> \o uri \o <<" ", "SIP/2.0">> \o CRLF
      \o HeaderLines(headers)
      \o <<"Content-Length", ":", " ">> \o Str(ContentLength(body)) \o CRLF
      \o CRLF
      \o body

(***************************************************************************)
(* The codec on its own: a text is parsed, or a request is encoded by      *)
(* create_sip_message and the text is parsed.                              *)
(***************************************************************************)
\* first lines of a datagram, up to MaxLine characters
LineAlphabet == {"SIP/2.0", "INVITE", "2", " "}
FirstLines == UNION {[1..n -> LineAlphabet] : n \in 0..MaxLine}
Texts == {l \o CRLF \o CRLF : l \in FirstLines}

\* arguments create_sip_message is called with; a number typed with a space
\* in it gives the second URI
Methods == {<<"INVITE">>, <<"ACK">>}
Uris == { <<"sip", ":", "1", "@", "d">>, <<"sip", ":", "1", " ", "8", "@", "d">> }
HeaderNames == {<<"Via">>, <<"To">>}
HeaderValues == { <<"x", ":", "y">>, <<"x", " ", "y">> }
HeaderLists ==
    { h \in UNION {[1..n -> HeaderNames \X HeaderValues] : n \in 0..MaxHeaders} :
        \A i, j \in DOMAIN h : i # j => h[i][1] # h[j][1] }
Bodies == { <<>>, <<"v", "\n">>, <<"v", "\r", "\n", "\r", "\n", "o">>, <<"U+00E9">> }
Requests ==
    { [method |-> m, uri |-> u, headers |-> h, body |-> b] :
        m \in Methods, u \in Uris, h \in HeaderLists, b \in Bodies }

clientVars == <<pc, op, ret, last_op, nops, method, rcvd, mark, sock, registered,
                call_id, local_tag, learned, cseq, branch, registration_state, sent,
                idGen, keepVars, hangVars, calls, arg, tracked, authVars,
                is_streaming>>

\* a response with up to MaxHeaders header lines, whose names may differ in
\* case only
LineNames == {"Via", "via", "To"}
LineValues == {"x", "y"}
HeaderLine(n, v) == <<n, ":", " ", v>> \o CRLF
RECURSIVE Concat(_)
Concat(qs) == IF qs = <<>> THEN <<>> ELSE Head(qs) \o Concat(Tail(qs))
HeaderTexts ==
    { <<"SIP/2.0", " ", "2", " ", "OK">> \o CRLF
        \o Concat([i \in DOMAIN h |-> HeaderLine(h[i][1], h[i][2])]) \o CRLF :
      h \in UNION {[1..n -> LineNames \X LineValues] : n \in 0..MaxHeaders} }

\* such a response cut off after its last header line: no blank line and no
\* line end after the last line
OpenTexts ==
    { <<"SIP/2.0", " ", "2", " ", "OK">>
        \o Concat([i \in DOMAIN h |-> CRLF \o <<h[i][1], ":", " ", h[i][2]>>]) :
      h \in UNION {[1..n -> LineNames \X LineValues] : n \in 1..MaxHeaders} }

\* the names get_header is asked for
LookupNames == {<<"Via">>, <<"via">>, <<"To">>}

InitCodec ==
    /\ prog = "codec"
    /\ ClientInit
    /\ ProtoOff
    /\ AccountOff
    /\ msg = NoMessage /\ c_name = <<>> /\ c_value = NoValue
    /\ \/ c_pc = "text" /\ c_req = NoReq /\ raw \in Texts \cup HeaderTexts \cup OpenTexts
       \/ c_pc = "request" /\ c_req \in Requests /\ raw = <<>>

CreateSipMessage ==
    /\ c_pc = "request"
    /\ raw' = create_sip_message(c_req.method, c_req.uri, c_req.headers, c_req.body)
    /\ c_pc' = "text"
    /\ UNCHANGED <<prog, accountVars, clientVars, protoVars, c_req, msg, c_name, c_value>>

Parse ==
    /\ c_pc = "text"
    /\ msg' = ParseMessage(raw)
    /\ c_pc' = "parsed"
    /\ UNCHANGED <<prog, accountVars, clientVars, protoVars, c_req, raw, c_name, c_value>>

GetHeader ==
    /\ c_pc = "parsed"
    /\ \E name \in LookupNames :
          /\ c_name' = name
          /\ c_value' = get_header(msg, name)
    /\ c_pc' = "looked"
    /\ UNCHANGED <<prog, accountVars, clientVars, protoVars, c_req, raw, msg>>

NextCodec == CreateSipMessage \/ Parse \/ GetHeader

SpecCodec == InitCodec /\ [][NextCodec]_vars

(***************************************************************************)
(* SIPProtocol: start, stop and the receive loop                           *)
(***************************************************************************)
\* what recvfrom returns: bytes that are the UTF-8 encoding of `text`, or
\* bytes that are not valid UTF-8
Datagram(ok, t) == [decodable |-> ok, text |-> t]
Datagrams ==
    { Datagram(TRUE, <<"SIP/2.0", " ", "2", " ", "INVITE">> \o CRLF \o CRLF),
      Datagram(TRUE, <<"INVITE", " ", "2", " ", "SIP/2.0">> \o CRLF \o CRLF),
      Datagram(TRUE, <<"INVITE">>),
      Datagram(FALSE, <<>>) }

\* the message is handed to on_response_received or on_request_received
Actionable(d) ==
    d.decodable /\ (is_response(ParseMessage(d.text)) \/ is_request(ParseMessage(d.text)))

\* `except Exception: ... break`
OnLoopError == "ended"

\* the callbacks one turn of the loop calls for datagram d when the callback
\* named by `raises` raises: on_message_received first, then
\* on_response_received for a response, else on_request_received for a request
Callbacks(d, raises) ==
    LET m == ParseMessage(d.text)
        go == d.decodable /\ raises # "message"
    IN  [read |-> TRUE,
         message |-> IF d.decodable THEN 1 ELSE 0,
         response |-> IF go /\ is_response(m) THEN 1 ELSE 0,
         request |-> IF go /\ ~is_response(m) /\ is_request(m) THEN 1 ELSE 0]

\* the datagram stays in the socket: nothing reads it
NotRead == [read |-> FALSE, message |-> 0, response |-> 0, request |-> 0]

\* start() of a protocol whose earlier receive thread, if any, has ended
Start ==
    /\ ~running
    /\ receive_thread \in {"off", "ended"}
    /\ running' = TRUE
    /\ proto_socket' = "open"
    /\ receive_thread' = "check"
    /\ UNCHANGED <<prog, accountVars, clientVars, codecVars, arrivals, delivered,
                   invoked, send_ret>>

\* stop(): clears running, closes and unsets the socket, and waits up to one
\* second for the thread
Stop ==
    /\ receive_thread # "off"
    /\ running' = FALSE
    /\ proto_socket' = "none"
    /\ UNCHANGED <<prog, accountVars, clientVars, codecVars, receive_thread, arrivals,
                   delivered, invoked, send_ret>>

\* `while self.running and self.socket`
LoopCheck ==
    /\ receive_thread = "check"
    /\ receive_thread' = IF running /\ proto_socket = "open" THEN "call" ELSE "ended"
    /\ UNCHANGED <<prog, accountVars, clientVars, codecVars, running, proto_socket,
                   arrivals, delivered, invoked, send_ret>>

\* `self.socket.recvfrom(8192)` is entered; self.socket is None once stop() ran
\* and the AttributeError ends the loop
LoopCall ==
    /\ receive_thread = "call"
    /\ receive_thread' = IF proto_socket = "open" THEN "recv" ELSE OnLoopError
    /\ UNCHANGED <<prog, accountVars, clientVars, codecVars, running, proto_socket,
                   arrivals, delivered, invoked, send_ret>>

\* recvfrom returns a datagram; the rest of the turn: decode, parse,
\* callbacks.  The socket has no timeout, and a datagram is also returned to a
\* recvfrom that was entered before stop() closed the socket.
ReceiveLoop ==
    /\ receive_thread = "recv"
    /\ Len(arrivals) < MaxDatagrams
    /\ \E d \in Datagrams, raises \in {"none", "message", "dispatch"} :
        /\ arrivals' = Append(arrivals, d)
        /\ invoked' = Append(invoked, Callbacks(d, raises))
        /\ delivered' = IF Actionable(d) /\ raises # "message"
                        THEN Append(delivered, d.text)
                        ELSE delivered
        /\ receive_thread' =
             IF \/ ~d.decodable
                \/ raises = "message"
                \/ raises = "dispatch" /\ Actionable(d)
             THEN OnLoopError
             ELSE "check"
    /\ UNCHANGED <<prog, accountVars, clientVars, codecVars, running, proto_socket,
                   send_ret>>

\* recvfrom raises OSError because the socket was closed under it, on a
\* platform where close() wakes a blocked recvfrom
RecvAborted ==
    /\ receive_thread = "recv"
    /\ proto_socket = "none"
    /\ receive_thread' = OnLoopError
    /\ UNCHANGED <<prog, accountVars, clientVars, codecVars, running, proto_socket,
                   arrivals, delivered, invoked, send_ret>>

\* a datagram reaches the socket after the loop has ended
Unread ==
    /\ running /\ receive_thread = "ended"
    /\ Len(arrivals) < MaxDatagrams
    /\ \E d \in Datagrams :
          /\ arrivals' = Append(arrivals, d)
          /\ invoked' = Append(invoked, NotRead)
    /\ UNCHANGED <<prog, accountVars, clientVars, codecVars, running, proto_socket,
                   receive_thread, delivered, send_ret>>

\* send_message: False without a socket, else True unless sendto raises
SendMessage ==
    /\ receive_thread # "off"
    /\ \E ok \in BOOLEAN :
          send_ret' = IF proto_socket = "open" /\ ok THEN "True" ELSE "False"
    /\ UNCHANGED <<prog, accountVars, clientVars, codecVars, running, proto_socket,
                   receive_thread, arrivals, delivered, invoked>>

InitProto ==
    /\ prog = "protocol"
    /\ ClientInit
    /\ CodecOff
    /\ ProtoOff
    /\ AccountOff

NextProto ==
    \/ Start \/ Stop \/ LoopCheck \/ LoopCall \/ ReceiveLoop \/ RecvAborted
    \/ Unread \/ SendMessage

SpecProto == InitProto /\ [][NextProto]_vars

\* Progress of the receive thread: it is scheduled, so its while test and its
\* call of recvfrom are executed.  Nothing makes a datagram arrive, and
\* nothing makes close() wake a recvfrom that is blocked.
SpecProtoLive ==
    InitProto /\ [][NextProto]_vars /\ WF_vars(LoopCheck) /\ WF_vars(LoopCall)

(***************************************************************************)
(* SIPAccount: the dataclass and its __post_init__                         *)
(***************************************************************************)
\* the largest port __post_init__ accepts
MaxPort == 65535

\* arguments SIPAccount is constructed with: '' as os.getenv(..., '') gives
\* it, a name, a blank; ports around both limits
Names == { <<>>, <<"a">>, <<" ">> }
Ports == { -1, 0, 1, 5060, MaxPort - 1, MaxPort, MaxPort + 1 }
AccountArgs ==
    { [username |-> u, password |-> p, domain |-> d, port |-> n] :
        u \in Names, p \in Names, d \in Names, n \in Ports }

\* `self.port <= 0`, accepting port 0
PortTooLow_Zero(n) == n < 0
\* `self.port <= 0`
PortTooLow(n) == n <= 0

\* __post_init__: the ValueError it raises, "" when it raises none
post_init(a) ==
    IF a.username = <<>> THEN "Username is required"
    ELSE IF a.password = <<>> THEN "Password is required"
    ELSE IF a.domain = <<>> THEN "Domain is required"
    ELSE IF PortTooLow(a.port) \/ a.port > MaxPort THEN "Port must be between 1 and 65535"
    ELSE ""

InitAccount ==
    /\ prog = "account"
    /\ ClientInit
    /\ CodecOff
    /\ ProtoOff
    /\ a_pc = "args" /\ a_args \in AccountArgs /\ account = NoAccount

\* SIPAccount(username, password, domain, port)
Construct ==
    /\ a_pc = "args"
    /\ IF post_init(a_args) = ""
       THEN a_pc' = "made" /\ account' = a_args
       ELSE a_pc' = "error" /\ account' = NoAccount
    /\ UNCHANGED <<prog, clientVars, codecVars, protoVars, a_args>>

NextAccount == Construct

SpecAccount == InitAccount /\ [][NextAccount]_vars

(***************************************************************************)
(* Vocabulary of the properties.                                           *)
(***************************************************************************)
\* datagrams sent since the running operation began
Attempt == SubSeq(sent, mark + 1, Len(sent))
Ended(o) == pc = "ret" /\ op = o
Last(q) == q[Len(q)]
CountOf(q, m) == Cardinality({i \in DOMAIN q : q[i].method = m})
StatusCodes(q) == [i \in DOMAIN q |-> q[i].code]
IsPrefix(p, q) == Len(p) <= Len(q) /\ \A i \in DOMAIN p : p[i] = q[i]
Provisional(r) == r.code \in 100..199
Success(r) == r.code \in 200..299
ValidChallenge(r) == r.code \in {401, 407} /\ r.chal = "valid"
Registered ==
    registered /\ (prog = "api" => registration_state = "REGISTERED")

\* C1: a REGISTER attempt answered by [401 or 407 with a valid challenge, 200]
\* reads both responses and ends Registered after exactly two REGISTER
\* datagrams, the second with Authorization, the same Call-ID and a higher CSeq.
C1_RegisterChallengeThenOk ==
    ( /\ Ended("register")
      /\ rcvd # <<>>
      /\ ValidChallenge(rcvd[1])
      /\ (Len(rcvd) >= 2 => rcvd[2].code = 200) )
    => /\ Len(rcvd) = 2
       /\ ret /\ Registered
       /\ Len(Attempt) = 2
       /\ Attempt[1].method = "REGISTER" /\ Attempt[2].method = "REGISTER"
       /\ Attempt[2].auth
       /\ Attempt[2].call_id = Attempt[1].call_id
       /\ Attempt[2].cseq > Attempt[1].cseq

\* C2: whatever the server answers, one REGISTER attempt sends at most two
\* REGISTER datagrams and one call attempt at most two INVITE datagrams, and a
\* 401/407 answering the authenticated request ends the attempt in failure.
C2_NoChallengeLoop ==
    /\ (op = "register" /\ pc # "idle") => CountOf(Attempt, "REGISTER") <= 2
    /\ (op = "make_call" /\ pc # "idle") => CountOf(Attempt, "INVITE") <= 2
    /\ ( /\ op \in {"register", "make_call"} /\ pc # "idle"
         /\ \E i \in DOMAIN rcvd :
              /\ rcvd[i].code \in {401, 407}
              /\ \E j \in 1..(i - 1) : rcvd[j].code \in {401, 407} )
       => pc = "ret" /\ ~ret

\* C3: a call attempt that ends Connected sent exactly one ACK and one that
\* ends Failed sent none; [100, 180, 200] ends Connected and [486] ends Failed.
C3_AckPerOutcome ==
    Ended("make_call") =>
       /\ CountOf(Attempt, "ACK") = (IF ret THEN 1 ELSE 0)
       /\ (rcvd # <<>> /\ IsPrefix(StatusCodes(rcvd), <<100, 180, 200>>))
             => (Len(rcvd) = 3 /\ ret)
       /\ StatusCodes(rcvd) = <<486>> => ~ret

\* The responses are provisional ones, at most one valid challenge among them,
\* then a 200.
ProvisionalsThenOk(q) ==
    /\ q # <<>>
    /\ Last(q).code = 200
    /\ \A i \in 1..(Len(q) - 1) : Provisional(q[i]) \/ ValidChallenge(q[i])
    /\ Cardinality({i \in DOMAIN q : ValidChallenge(q[i])}) <= 1

\* C4: INVITE handling is response driven: a provisional response never ends
\* the transaction, and any run of provisional responses followed by a 200,
\* before or after the challenge, ends Connected.  Stated for responses that
\* carry the standard reason phrases and quote nothing.
C4_ResponseDriven ==
    ( /\ Ended("make_call") /\ rcvd # <<>>
      /\ \A i \in DOMAIN rcvd : rcvd[i] \in StdResponses )
    => /\ ~Provisional(Last(rcvd))
       /\ ProvisionalsThenOk(rcvd) => ret

\* C5: a final response to the INVITE with a status code in 200..299 makes the
\* call Connected and is followed at once by an ACK.
C5_SuccessConnects ==
    (op = "make_call" /\ pc # "idle" /\ rcvd # <<>> /\ Success(Last(rcvd)))
    => /\ pc = "ret" /\ ret
       /\ Attempt # <<>> /\ Last(Attempt).method = "ACK"

FirstChallenge(q) ==
    /\ Last(q).code \in {401, 407}
    /\ \A i \in 1..(Len(q) - 1) : q[i].code \notin {401, 407}

\* C6: a final response to the INVITE that is not 2xx and not the first
\* challenge ends the attempt Failed without an ACK, whatever else its text holds.
C6_FailureByStatusCode ==
    ( /\ op = "make_call" /\ pc # "idle" /\ rcvd # <<>>
      /\ Last(rcvd).code >= 300
      /\ ~FirstChallenge(rcvd) )
    => /\ pc = "ret" /\ ~ret
       /\ CountOf(Attempt, "ACK") = 0

\* the INVITE an ACK at position i acknowledges: the latest INVITE before it
AckedInvite(i) ==
    CHOOSE j \in 1..(i - 1) :
        /\ sent[j].method = "INVITE"
        /\ \A k \in (j + 1)..(i - 1) : sent[k].method # "INVITE"

\* C7: every ACK carries the Call-ID and the CSeq number of the INVITE that
\* was answered, on the path without and on the path with a challenge, and
\* sending it leaves the CSeq counter at that number.
C7_AckCSeqIsInviteCSeq ==
    /\ \A i \in DOMAIN sent :
         sent[i].method = "ACK" =>
            /\ \E j \in 1..(i - 1) : sent[j].method = "INVITE"
            /\ sent[AckedInvite(i)].call_id = sent[i].call_id
            /\ sent[AckedInvite(i)].cseq = sent[i].cseq
    /\ (Ended("make_call") /\ ret) =>
            /\ Last(sent).method = "ACK"
            /\ cseq = Last(sent).cseq

\* Connected after a challenge: INVITE 1, INVITE 2 with credentials, ACK 2.
C7_Witness ==
    /\ Ended("make_call") /\ ret
    /\ Len(Attempt) = 3
    /\ Attempt[2].method = "INVITE" /\ Attempt[2].auth /\ Attempt[2].cseq = 2
    /\ Attempt[3].method = "ACK" /\ Attempt[3].cseq = 2

\* C8: with operations executed one at a time, every non-ACK request has a
\* CSeq above that of each earlier non-ACK request of the same Call-ID.
C8_CSeqIncreasing ==
    \A i, j \in DOMAIN sent :
        ( /\ i < j
          /\ sent[i].method # "ACK" /\ sent[j].method # "ACK"
          /\ sent[i].call_id = sent[j].call_id )
        => sent[i].cseq < sent[j].cseq

\* One dialog with INVITE, authenticated INVITE, a keepalive INVITE and BYE.
C8_Witness ==
    \E i, j, k, l \in DOMAIN sent :
        /\ i < j /\ j < k /\ k < l
        /\ sent[i].method = "INVITE" /\ ~sent[i].auth /\ sent[i].cseq = 1
        /\ sent[j].method = "INVITE" /\ sent[j].auth
        /\ sent[k].method = "INVITE" /\ sent[k].to_tag # NoTag
        /\ sent[l].method = "BYE"
        /\ {sent[j].call_id, sent[k].call_id, sent[l].call_id} = {sent[i].call_id}

\* C9: under every interleaving of the keepalive thread and hangup, the CSeq
\* numbers of the requests they emit are distinct and increase in send order.
C9_SerializedCSeq ==
    prog = "cli" =>
        \A i, j \in DOMAIN sent :
            ( /\ i < j
              /\ sent[i].method \in {"INVITE", "BYE"} /\ sent[i].to_tag # NoTag
              /\ sent[j].method \in {"INVITE", "BYE"} /\ sent[j].to_tag # NoTag )
            => sent[i].cseq < sent[j].cseq

\* C10: once the BYE of an established dialog was sent, no later request
\* carries that dialog's Call-ID.
C10_NothingAfterBye ==
    \A i, j \in DOMAIN sent :
        ( /\ i < j
          /\ sent[i].method = "BYE"
          /\ \E a \in 1..(i - 1) :
               sent[a].method = "ACK" /\ sent[a].call_id = sent[i].call_id )
        => sent[j].call_id # sent[i].call_id

\* the call of the `call` command is up and the user has not hung up
CallActive == prog = "cli" /\ last_op = "make_call" /\ ret /\ op = "make_call"

\* an INVITE sent after the ACK of the current dialog, with its Call-ID and tags
KeepaliveSent ==
    \E a, i \in DOMAIN sent :
        /\ a < i
        /\ sent[a].method = "ACK" /\ sent[a].call_id = call_id
        /\ sent[i].method = "INVITE" /\ sent[i].call_id = call_id
        /\ sent[i].from_tag = local_tag /\ sent[i].to_tag = sent[a].to_tag

\* C11: whichever way the call became Connected, as long as the user does not
\* hang up a keepalive INVITE with the dialog's Call-ID and tags is eventually
\* sent.
C11_KeepaliveEventuallySent ==
    CallActive ~> (KeepaliveSent \/ op = "hangup")

\* C12: when SIPClient.hangup(call_id) returns for a tracked call the call is
\* no longer tracked, whether the BYE was sent, sendto failed or the socket was
\* closed; the operation returns True.
C12_HangupAlwaysSucceedsLocally ==
    (Ended("hangup") /\ prog = "api" /\ tracked) => (arg \notin calls /\ ret)

\* hangup of a tracked call whose BYE could not be sent
C12_Witness ==
    /\ Ended("hangup") /\ prog = "api" /\ tracked
    /\ call_id # 0 /\ CountOf(Attempt, "BYE") = 0

\* C13: a timeout of a REGISTER or INVITE wait ends the attempt with a failure
\* in that very step: nothing is sent again, the client's registered flag, CSeq
\* and tracked calls keep their values, only SIPClient.register marks the
\* registration FAILED; the outcome is never Registered or Connected.
C13_TimeoutEndsAttempt ==
    [][ (rcvd' # rcvd /\ rcvd' # <<>> /\ Last(rcvd') = Timeout)
        => /\ pc' = "ret" /\ ~ret'
           /\ sent' = sent
           /\ registered' = registered /\ cseq' = cseq /\ calls' = calls
           /\ registration_state' =
                 IF op = "register" /\ prog = "api" THEN "FAILED"
                 ELSE registration_state ]_vars

\* a call attempt that timed out waiting for the second response
C13_Witness ==
    /\ Ended("make_call") /\ Len(rcvd) = 2 /\ Last(rcvd) = Timeout
    /\ ~ret /\ Last(sent).method = "INVITE"

\* C14: a REGISTER attempt that got an answer ends on a final response, never
\* on a provisional 1xx, and ends Registered exactly when that final response
\* is a 200.  Stated for responses that carry the standard reason phrases and
\* quote nothing.
C14_RegisterOutcomeByFinalResponse ==
    ( /\ Ended("register") /\ rcvd # <<>> /\ Last(rcvd) # Timeout
      /\ \A i \in DOMAIN rcvd : rcvd[i] \in StdResponses )
    => /\ ~Provisional(Last(rcvd))
       /\ ret <=> Last(rcvd).code = 200
       /\ ret => Registered

\* a first challenge, with realm and nonce, reached through provisional
\* responses only, all with the standard reason phrases
ChallengedInvite ==
    /\ op = "make_call" /\ pc # "idle" /\ rcvd # <<>>
    /\ Last(rcvd).code \in {401, 407} /\ Last(rcvd).chal # "none"
    /\ \A i \in 1..(Len(rcvd) - 1) : Provisional(rcvd[i])
    /\ \A i \in DOMAIN rcvd : rcvd[i] \in StdResponses \cup CommaResponses

\* C15: a challenged INVITE, challenged at once or after provisional
\* responses, is sent again with the same Call-ID and From tag, the next CSeq
\* and an Authorization header holding the realm and nonce of the challenge.
C15_ChallengedInviteResent ==
    ChallengedInvite =>
        /\ Len(Attempt) = 2
        /\ Attempt[1].method = "INVITE" /\ Attempt[2].method = "INVITE"
        /\ Attempt[2].call_id = Attempt[1].call_id
        /\ Attempt[2].from_tag = Attempt[1].from_tag
        /\ Attempt[2].cseq = Attempt[1].cseq + 1
        /\ Attempt[2].auth
        /\ cred = <<ChallengeRealm(Last(rcvd)), ChallengeNonce(Last(rcvd))>>

\* C16: on every path that ends Connected on a 2xx, the ACK carries the tag of
\* the To header of that 2xx and is addressed to the URI of its Contact
\* header, or to sip:<domain> when the 2xx has no Contact.
C16_AckFromFinalResponse ==
    ( /\ Ended("make_call") /\ ret /\ rcvd # <<>> /\ Success(Last(rcvd))
      /\ Attempt # <<>> /\ Last(Attempt).method = "ACK" )
    => /\ Last(Attempt).to_tag = Last(rcvd).tag
       /\ Last(Attempt).uri =
             (IF Last(rcvd).contact # NoContact THEN Last(rcvd).contact ELSE DomainUri)

\* the first line of the text that was parsed, cut at spaces
FirstLineFields == Split(Strip(Split(raw, "\n")[1]), " ")

\* "SIP/2.0", a space, an integer status code
IsStatusLine(f) == Len(f) >= 2 /\ f[1] = <<"SIP/2.0">> /\ IsInt(f[2])

\* a method, a URI and a version, each present
IsRequestLine(f) ==
    /\ Len(f) >= 3 /\ f[1] # <<>> /\ f[2] # <<>> /\ f[3] # <<>>
    /\ Head(f[1]) # "SIP/2.0"

\* C17: parsing any text gives a message, and when the first line is neither
\* a status line with an integer status code nor a request line with method,
\* URI and version the message has an empty method and status code 0: it is
\* neither a request nor a response.
C17_MalformedIsNeither ==
    ( /\ c_pc = "parsed" /\ c_req = NoReq
      /\ ~IsStatusLine(FirstLineFields) /\ ~IsRequestLine(FirstLineFields) )
    => /\ msg.method = <<>> /\ msg.status_code = 0
       /\ ~is_request(msg) /\ ~is_response(msg)

\* C19: for every request built by create_sip_message, parsing the encoded
\* text gives back the method, the URI, every header with its value and the
\* body.
C19_RoundTrip ==
    (c_pc = "parsed" /\ c_req # NoReq) =>
        /\ msg.method = c_req.method
        /\ msg.uri = c_req.uri
        /\ \A i \in DOMAIN c_req.headers :
             /\ c_req.headers[i][1] \in DOMAIN msg.headers
             /\ msg.headers[c_req.headers[i][1]] = c_req.headers[i][2]
        /\ msg.body = c_req.body

\* C20: the Content-Length written by create_sip_message equals the number of
\* bytes of the body as it is transmitted.
C20_ContentLengthInBytes ==
    (c_pc = "parsed" /\ c_req # NoReq) =>
        /\ <<"Content-Length">> \in DOMAIN msg.headers
        /\ IsInt(msg.headers[<<"Content-Length">>])
        /\ IntOf(msg.headers[<<"Content-Length">>]) = ByteLen(c_req.body)

\* the challenge the running operation answered: the first response with a
\* challenge header
Challenge ==
    rcvd[CHOOSE i \in DOMAIN rcvd :
            rcvd[i].chal # "none" /\ \A j \in 1..(i - 1) : rcvd[j].chal = "none"]
\* the request the running operation sent again with an Authorization header
Resent == Attempt[CHOOSE i \in DOMAIN Attempt : Attempt[i].auth]
AuthorizationSent ==
    /\ op \in {"register", "make_call"} /\ pc # "idle"
    /\ \E i \in DOMAIN Attempt : Attempt[i].auth

\* C21: the response field of the Authorization header is
\* H(H(username:realm:password):nonce:H(method:uri)) with realm and nonce those
\* of the challenge that was received and method and uri those of the request
\* sent again; username, realm, nonce and uri of the header are those values.
C21_DigestOfChallenge ==
    AuthorizationSent =>
        LET realm == ChallengeRealm(Challenge)
            nonce == ChallengeNonce(Challenge)
            uri == UriText(Resent.uri)
        IN  /\ authorization.username = Username
            /\ authorization.realm = realm
            /\ authorization.nonce = nonce
            /\ authorization.uri = uri
            /\ authorization.response =
                  MD5(<<MD5(Username \o <<":">> \o realm \o <<":">> \o Password), ":">>
                        \o nonce
                        \o <<":", MD5(<<Resent.method, ":">> \o uri)>>)

\* the dialog the signalling client holds is the call to number n: its
\* Call-ID is that of an INVITE to n and no BYE ended it
HoldsDialogOf(n) ==
    /\ \E i \in DOMAIN sent :
          /\ sent[i].method = "INVITE" /\ sent[i].call_id = call_id
          /\ sent[i].uri = NumberUri(n)
    /\ \A i \in DOMAIN sent : sent[i].method = "BYE" => sent[i].call_id # call_id

\* C22: between the operations of a caller of SIPClient at most one call is
\* tracked, and a tracked call is the dialog the signalling client holds.
C22_SingleCall ==
    (ApiCaller /\ pc = "idle") =>
        /\ Cardinality(calls) <= 1
        /\ \A n \in calls : HoldsDialogOf(n)

\* the position of a state in CallState
Rank(st) == CHOOSE i \in DOMAIN CallState : CallState[i] = st

\* make_call of a caller of SIPClient returns a failure after its INVITE went out
CallAttemptFailed ==
    /\ ApiCaller /\ Ended("make_call") /\ ~ret
    /\ CountOf(Attempt, "INVITE") > 0

\* C23: a call's state starts at IDLE, no step moves it to an earlier state,
\* a call is dropped only in state DISCONNECTED or FAILED, and a call attempt
\* that failed leaves its call in state FAILED.
C23_CallStateForward ==
    [][ /\ \A n \in calls' \ calls : CallStates'[n] = "IDLE"
        /\ \A n \in calls \cap calls' : Rank(CallStates'[n]) >= Rank(CallStates[n])
        /\ \A n \in calls \ calls' : CallStates[n] \in {"DISCONNECTED", "FAILED"}
        /\ CallAttemptFailed' => (arg' \in calls' /\ CallStates'[arg'] = "FAILED")
      ]_vars

\* make_call of a caller of SIPClient has sent its INVITE and waits for a
\* response
CallSetup ==
    /\ ApiCaller /\ op = "make_call"
    /\ pc \in {"inv_wait", "inv_wait_100", "inv_wait_180", "auth_wait",
               "auth_wait_100", "auth_wait_183", "auth_wait_180"}

\* the state the responses q lead to from CALLING: 180 gives RINGING, 183
\* gives CONNECTING, 100 and a challenge change nothing
RECURSIVE SetupState(_)
SetupState(q) ==
    IF q = <<>> THEN "CALLING"
    ELSE IF Last(q).code = 180 THEN "RINGING"
    ELSE IF Last(q).code = 183 THEN "CONNECTING"
    ELSE SetupState(SubSeq(q, 1, Len(q) - 1))

\* C24: while a call is being set up its state follows the responses read so
\* far: CALLING once the INVITE is sent and after 100, RINGING after 180,
\* CONNECTING after 183; the final response then gives CONNECTED or FAILED.
C24_StateFollowsResponses ==
    /\ CallSetup => (arg \in calls /\ CallStates[arg] = SetupState(rcvd))
    /\ (ApiCaller /\ Ended("make_call") /\ CountOf(Attempt, "INVITE") > 0) =>
          (arg \in calls /\ CallStates[arg] = (IF ret THEN "CONNECTED" ELSE "FAILED"))

\* C25: a call that became CONNECTED and was not hung up has media streaming
\* on, and after teardown by stop/cleanup streaming is off.
C25_StreamingFollowsCall ==
    /\ (ApiCaller /\ pc \in {"idle", "ret"} /\ op = "make_call" /\ ret)
          => is_streaming
    /\ (ApiCaller /\ Ended("cleanup")) => ~is_streaming

\* C26: constructing a SIPAccount fails exactly when username, password or
\* domain is empty or port is outside 1..65535; an account that exists has
\* the fields it was constructed with, all of them valid.
C26_AccountValid ==
    /\ a_pc \in {"made", "error"} =>
          ( a_pc = "error" <=>
              \/ a_args.username = <<>> \/ a_args.password = <<>> \/ a_args.domain = <<>>
              \/ a_args.port \notin 1..65535 )
    /\ a_pc = "made" =>
          /\ account = a_args
          /\ account.username # <<>> /\ account.password # <<>> /\ account.domain # <<>>
          /\ account.port \in 1..65535
    /\ a_pc # "made" => account = NoAccount

\* an account was constructed with the largest port
C26_Witness == a_pc = "made" /\ account.port = 65535

\* the header lines of the text that was parsed, as <<name, value>> pairs:
\* the lines with a colon before the first blank line
RECURSIVE HeaderPairs(_, _)
HeaderPairs(lines, k) ==
    IF k > Len(lines) \/ Strip(lines[k]) = <<>> THEN <<>>
    ELSE (IF ":" \in Range(lines[k])
          THEN << <<Strip(SplitMax(lines[k], ":", 1)[1]),
                    Strip(SplitMax(lines[k], ":", 1)[2])>> >>
          ELSE <<>>)
         \o HeaderPairs(lines, k + 1)
LinesNamed(name) ==
    SelectSeq(HeaderPairs(Split(raw, "\n"), 2), LAMBDA nv : Lower(nv[1]) = Lower(name))

\* C27: get_header(name) returns the value of the last header line whose name
\* equals `name` ignoring case, and None when the text has no such line.
C27_LastWriteWinsAnyCase ==
    c_pc = "looked" =>
        c_value = (IF LinesNamed(c_name) = <<>> THEN NoValue
                   ELSE [found |-> TRUE, value |-> Last(LinesNamed(c_name))[2]])

\* C28: the To tag of a response is captured into the remote tag only when
\* the remote tag is unset: a step that reads a response while a remote tag is
\* known leaves the remote tag as it is.
C28_FirstTagKept ==
    [][ (rcvd' # rcvd /\ rcvd' # <<>> /\ remote_tag # NoTag)
        => remote_tag' = remote_tag ]_vars

\* the first INVITE of a call: the one make_call sends
IsFirstInvite(i) ==
    sent[i].method = "INVITE" /\ ~sent[i].auth /\ sent[i].to_tag = NoTag
\* the first INVITE of the call that was started last before request i
FirstInvite(i) ==
    CHOOSE j \in 1..(i - 1) :
        IsFirstInvite(j) /\ \A k \in (j + 1)..(i - 1) : ~IsFirstInvite(k)
\* request i belongs to that call: it is its authenticated INVITE or its ACK,
\* or a keepalive INVITE or BYE sent while the call is up (acknowledged and
\* not hung up yet)
RequestOfCall(i) ==
    /\ \E j \in 1..(i - 1) : IsFirstInvite(j)
    /\ \/ sent[i].method = "ACK"
       \/ sent[i].method = "INVITE" /\ sent[i].auth
       \/ /\ sent[i].method = "BYE" \/ (sent[i].method = "INVITE" /\ ~IsFirstInvite(i))
          /\ \E a \in (FirstInvite(i) + 1)..(i - 1) : sent[a].method = "ACK"
          /\ \A k \in (FirstInvite(i) + 1)..(i - 1) : sent[k].method # "BYE"

\* C29: every request of a call carries the Call-ID and the From tag of the
\* call's first INVITE, whatever operations ran between the start of the call
\* and its hangup.
C29_StableCallId ==
    \A i \in DOMAIN sent :
        RequestOfCall(i) =>
            /\ sent[i].call_id = sent[FirstInvite(i)].call_id
            /\ sent[i].from_tag = sent[FirstInvite(i)].from_tag

\* make_call is running, its INVITE is sent, and the call before it was hung
\* up or had failed
NewCallAfterEnded ==
    /\ op = "make_call" /\ pc # "idle" /\ Len(sent) > mark
    /\ IsFirstInvite(mark + 1)
    /\ \E j \in 1..mark : IsFirstInvite(j)
    /\ LET j == FirstInvite(mark + 1) IN
          \/ \E k \in (j + 1)..mark : sent[k].method = "BYE"
          \/ \A a \in (j + 1)..mark : sent[a].method # "ACK"

\* C30: in a call started after an earlier call was hung up or failed, the
\* remote tag and the remote contact are unset while no response of the new
\* call has been recorded, and the ACK of the new call carries a tag and a
\* target that come from the new call's own responses or none.
C30_NoLeakBetweenCalls ==
    NewCallAfterEnded =>
        /\ pc # "ret" => (remote_tag = NoTag /\ contact_uri = NoContact)
        /\ \A i \in DOMAIN Attempt :
              Attempt[i].method = "ACK" =>
                 /\ Attempt[i].to_tag \in {NoTag} \cup {rcvd[k].tag : k \in DOMAIN rcvd}
                 /\ Attempt[i].uri \in
                       {DomainUri} \cup {rcvd[k].contact : k \in DOMAIN rcvd}

\* a call dialog exists: the request with the client's Call-ID was
\* acknowledged and no BYE with that Call-ID was sent
CallDialog ==
    /\ \E i \in DOMAIN sent : sent[i].method = "ACK" /\ sent[i].call_id = call_id
    /\ \A i \in DOMAIN sent : sent[i].method = "BYE" => sent[i].call_id # call_id

\* a step of the main thread inside hangup
HangupStep == op' = "hangup" /\ pc' # pc /\ pc' # "idle"

\* C31: a step of hangup taken while no call dialog exists sends nothing and
\* leaves the CSeq counter as it is; with a call dialog, hangup returns
\* without reading a response, having built one BYE whose CSeq is one above
\* that of the previous request and having sent nothing else.
C31_ByeOnlyInCall ==
    [][ HangupStep =>
          /\ ~CallDialog => (sent' = sent /\ cseq' = cseq)
          /\ (CallDialog /\ pc' = "ret") =>
                /\ rcvd' = <<>>
                /\ h_msg'.method = "BYE"
                /\ h_msg'.cseq = Last(sent).cseq + 1
                /\ sent' \in {sent, Append(sent, h_msg')}
      ]_vars

\* a 401 or 407 without a challenge header, or whose challenge has no realm
\* or no nonce
MalformedChallenge(r) ==
    /\ r.code \in {401, 407}
    /\ r.chal = "none" \/ ChallengeRealm(r) = <<>> \/ ChallengeNonce(r) = <<>>

FirstOfCallId(i) == \A j \in 1..(i - 1) : sent[j].call_id # sent[i].call_id

\* C33: the first request sent with a freshly generated Call-ID, a REGISTER
\* or an INVITE, carries CSeq 1 whatever operations ran before.
C33_CSeqStartsAtOne ==
    \A i \in DOMAIN sent : FirstOfCallId(i) => sent[i].cseq = 1

\* C34: make_call begun on a client that has not registered successfully
\* returns a failure in that very step, sends nothing and leaves Call-ID,
\* tags, CSeq and branch as they were; no INVITE is ever sent by a client
\* that has not registered.
C34_NoCallBeforeRegistration ==
    [][ /\ (op' = "make_call" /\ pc = "idle" /\ pc' # "idle" /\ ~registered) =>
              /\ pc' = "ret" /\ ~ret'
              /\ sent' = sent
              /\ call_id' = call_id /\ local_tag' = local_tag
              /\ remote_tag' = remote_tag /\ contact_uri' = contact_uri
              /\ cseq' = cseq /\ branch' = branch
              /\ calls' = calls
        /\ ~registered' => \A i \in DOMAIN sent' : sent'[i].method # "INVITE"
      ]_vars

\* make_call was refused after a registration attempt that failed
C34_Witness ==
    /\ Ended("make_call") /\ ~ret /\ ~registered
    /\ prog = "api" /\ sent # <<>> /\ Attempt = <<>> /\ call_id # 0

\* C35: between and at the end of the operations of a caller of SIPClient,
\* registration_state is REGISTERED exactly when the signalling client's
\* registered flag is set, and an INVITE is sent only while
\* registration_state is REGISTERED.
C35_RegistrationStatesAgree ==
    ApiCaller =>
        /\ pc \in {"idle", "ret"} =>
              (registration_state = "REGISTERED" <=> registered)
        /\ (op = "make_call" /\ pc # "idle" /\ CountOf(Attempt, "INVITE") > 0) =>
              registration_state = "REGISTERED"

\* the line feeds of text t that end a blank line other than the first line
BlankEnds(t) ==
    { i \in DOMAIN t :
        /\ t[i] = "\n"
        /\ \E j \in 1..(i - 1) :
              t[j] = "\n" /\ \A k \in (j + 1)..(i - 1) : t[k] \in Whitespace \ {"\n"} }
\* the text after the first blank line of t, empty when t has no blank line
AfterBlank(t) ==
    IF BlankEnds(t) = {} THEN <<>>
    ELSE SubSeq(t, (CHOOSE i \in BlankEnds(t) : \A j \in BlankEnds(t) : i <= j) + 1, Len(t))

\* C36: the body of a decoded message is the text after the first blank line,
\* so no header line is part of it, and it is empty when the text has no
\* blank line.
C36_BodyAfterBlankLine ==
    c_pc \in {"parsed", "looked"} => msg.body = AfterBlank(raw)

\* C37: no decoded message is both a request and a response, and for every
\* datagram the receive loop read it called on_message_received once and then
\* on_response_received once for a response, on_request_received once for a
\* request, and neither for a message that is neither.
C37_DispatchByKind ==
    \A i \in DOMAIN invoked :
        invoked[i].read =>
            LET m == ParseMessage(arrivals[i].text) IN
            /\ ~(is_request(m) /\ is_response(m))
            /\ invoked[i].message = 1
            /\ invoked[i].response = (IF is_response(m) THEN 1 ELSE 0)
            /\ invoked[i].request = (IF is_request(m) THEN 1 ELSE 0)

\* stop() was called on a protocol that had been started
StopCalled == ~running /\ receive_thread # "off"

\* C38: once stop() was called on a started protocol the socket is unset, a
\* send_message returns False, and under every interleaving of stop() with the
\* receive loop the loop eventually ends.
C38_StopUnblocksReceiver ==
    /\ [](StopCalled => proto_socket = "none")
    /\ [][(StopCalled /\ send_ret' # send_ret) => send_ret' = "False"]_vars
    /\ [](StopCalled => <>(receive_thread = "ended"))

\* C18: while the protocol is running the receive loop is running, whatever
\* datagrams have arrived and whatever the callbacks did, and every
\* actionable datagram that arrived was delivered.
C18_ReceiveLoopSurvives ==
    running =>
        /\ receive_thread \in {"check", "call", "recv"}
        /\ delivered = [i \in 1..Len(SelectSeq(arrivals, Actionable))
                          |-> SelectSeq(arrivals, Actionable)[i].text]

====
